---- MODULE Spec2Model ----
(***************************************************************************)
(* Model of httpcore/_async/http_proxy.py: the proxy pool AsyncHTTPProxy,  *)
(* the forwarding connection AsyncForwardHTTPConnection, the CONNECT       *)
(* tunnel AsyncTunnelHTTPConnection and the helper merge_headers.          *)
(*                                                                         *)
(* Spec      : one pool, the one connection it creates, and the callers    *)
(*             that use that connection concurrently.                      *)
(* SpecMerge : merge_headers applied to bounded header sequences.          *)
(***************************************************************************)
EXTENDS Integers, Sequences, FiniteSets, TLC

VARIABLES
    pool,            \* AsyncHTTPProxy: construction state and configuration
    conn,            \* the connection create_connection returned (immutable fields)
    connected,       \* AsyncTunnelHTTPConnection._connected
    connection,      \* _connection: the current delegate
    connect_lock,    \* _connect_lock: the caller holding it, or NoCaller
    pc,              \* position of each caller inside handle_async_request
    err,             \* the exception each caller's call raises, if any
    delegatedTo,     \* the delegate each caller's original request was handed to
    rawClosed,       \* is_closed() of the proxy-facing AsyncHTTPConnection
    adapterClosed,   \* is_closed() of the HTTP/1.1 or HTTP/2 adapter
    connect_requests, \* every CONNECT request put on the wire, in order
    start_tls_calls, \* the keyword arguments of every start_tls call, in order
    timeout,         \* each caller's local: request.extensions timeout "connect"
                     \* (None again once the call no longer reads it)
    connect_status,  \* each caller's local: connect_response.status
                     \* (0 before the response and once no longer read)
    requested,       \* the origin create_connection was called with
    rejected,        \* every CONNECT response the tunnel rejected, in order
    proxy_request,   \* last request a forwarding connection sent to the proxy
    default_headers, \* SpecMerge: first argument of merge_headers
    override_headers, \* SpecMerge: second argument of merge_headers
    merged           \* SpecMerge: the value merge_headers returned

vars == <<pool, conn, connected, connection, connect_lock, pc, err, delegatedTo,
          rawClosed, adapterClosed, connect_requests, start_tls_calls, timeout,
          connect_status, requested, rejected, proxy_request,
          default_headers, override_headers, merged>>

poolVars == <<pool, conn, requested>>
tunnelVars == <<connected, connection, connect_lock, pc, err, delegatedTo,
                rawClosed, adapterClosed, connect_requests, start_tls_calls,
                timeout, connect_status, rejected>>
mergeVars == <<default_headers, override_headers, merged>>

----------------------------------------------------------------------------
(* Bounds *)

NCallers == 2
MaxHeaders == 2

Callers == 1..NCallers

None == "None"
NoCaller == 0

----------------------------------------------------------------------------
(* Bytes.  A bytes object is a sequence of byte values. *)

B_Host == <<72, 111, 115, 116>>
B_host == <<104, 111, 115, 116>>
B_Accept == <<65, 99, 99, 101, 112, 116>>
B_XA == <<88, 45, 65>>
B_xa == <<120, 45, 97>>
B_Via == <<86, 105, 97>>

\* bytes.lower(): ASCII upper-case letters are mapped to lower case
LowerByte(b) == IF b >= 65 /\ b <= 90 THEN b + 32 ELSE b

Lower(key) == [i \in 1..Len(key) |-> LowerByte(key[i])]

SeqsUpTo(S, n) == UNION {[1..k -> S] : k \in 0..n}

----------------------------------------------------------------------------
(* merge_headers *)

\* An Optional[Sequence[...]] argument: None, or a list of (key, value) pairs
NoneHeaders == [is_none |-> TRUE, items |-> <<>>]
SomeHeaders(h) == [is_none |-> FALSE, items |-> h]

merge_headers_no_lower(defaults, overrides) ==
    LET d == IF defaults.is_none THEN <<>> ELSE defaults.items
        o == IF overrides.is_none THEN <<>> ELSE overrides.items
        has_override == {o[i][1] : i \in 1..Len(o)}
        Keep(h) == h[1] \notin has_override
    IN SelectSeq(d, Keep) \o o

merge_headers(defaults, overrides) ==
    LET d == IF defaults.is_none THEN <<>> ELSE defaults.items
        o == IF overrides.is_none THEN <<>> ELSE overrides.items
        has_override == {Lower(o[i][1]) : i \in 1..Len(o)}
        Keep(h) == Lower(h[1]) \notin has_override
    IN SelectSeq(d, Keep) \o o

----------------------------------------------------------------------------
(* Origins, URLs and the inputs the environment may supply *)

Origin(scheme, host, port) == [scheme |-> scheme, host |-> host, port |-> port]

NoOrigin == Origin("", <<>>, 0)

B_p == <<112>>
B_a == <<97>>

ProxySchemes == {"http", "https"}

ProxyOrigin(scheme) == Origin(scheme, B_p, 8080)

\* destinations a pool may be asked for: plaintext, TLS, another TLS-protected
\* scheme, and the proxy's own origins
RemoteOrigins ==
    {Origin("http", B_a, 80), Origin("https", B_a, 443), Origin("wss", B_a, 443),
     ProxyOrigin("http"), ProxyOrigin("https")}

SSLContexts == {None, "ctx"}

\* proxy_headers after enforce_headers: a list of (bytes, bytes) pairs
ProxyHeaderChoices ==
    {<<>>, <<<<B_host, B_p>>, <<B_XA, <<49>>>>>>}

\* request.headers of an incoming request
RequestHeaderChoices ==
    {<<>>, <<<<B_xa, <<51>>>>>>, <<<<B_Host, B_a>>, <<B_Via, <<52>>>>>>}

\* request.extensions["timeout"]["connect"], None when absent
ConnectTimeouts == {None, "5.0"}

RECURSIVE Digits(_)
\* "%d" % n for n >= 0
Digits(n) == IF n < 10 THEN <<48 + n>> ELSE Digits(n \div 10) \o <<48 + (n % 10)>>

RECURSIVE ParseDigits(_)
\* int(bytes) for a non-empty sequence of ASCII digits
ParseDigits(ds) ==
    IF Len(ds) = 0 THEN 0
    ELSE 10 * ParseDigits(SubSeq(ds, 1, Len(ds) - 1)) + (ds[Len(ds)] - 48)

----------------------------------------------------------------------------
(* AsyncHTTPProxy *)

NewPool ==
    [state |-> "new", proxy_origin |-> NoOrigin, proxy_ssl_context |-> None,
     proxy_headers |-> <<>>, http1 |-> TRUE, http2 |-> FALSE,
     arg_proxy_ssl_context |-> None]

NoConn ==
    [kind |-> "None", proxy_origin |-> NoOrigin, remote_origin |-> NoOrigin,
     proxy_ssl_context |-> None, proxy_headers |-> <<>>,
     http1 |-> TRUE, http2 |-> FALSE]

proxy_ssl_context_any_scheme(scheme, proxy_ssl_context) ==
    proxy_ssl_context # None

\* the condition under which __init__ raises RuntimeError
proxy_ssl_context_not_allowed(scheme, proxy_ssl_context) ==
    scheme = "http" /\ proxy_ssl_context # None

\* AsyncHTTPProxy.__init__.  arg_proxy_ssl_context remembers the argument
\* that was passed, also when the constructor raised before storing it.
Construct(scheme, proxy_ssl_context, proxy_headers, http1, http2) ==
    /\ pool.state = "new"
    /\ IF proxy_ssl_context_not_allowed(scheme, proxy_ssl_context)
       THEN pool' = [pool EXCEPT !.state = "RuntimeError",
                                 !.proxy_origin = ProxyOrigin(scheme),
                                 !.http1 = http1, !.http2 = http2,
                                 !.arg_proxy_ssl_context = proxy_ssl_context]
       ELSE pool' = [state |-> "ready", proxy_origin |-> ProxyOrigin(scheme),
                     proxy_ssl_context |-> proxy_ssl_context,
                     proxy_headers |-> proxy_headers,
                     http1 |-> http1, http2 |-> http2,
                     arg_proxy_ssl_context |-> proxy_ssl_context]
    /\ UNCHANGED <<conn, requested, tunnelVars, proxy_request, mergeVars>>

create_connection_by_proxy_scheme(p, origin) ==
    [kind |-> IF p.proxy_origin.scheme = "http" THEN "Forward" ELSE "Tunnel",
     proxy_origin |-> p.proxy_origin, remote_origin |-> origin,
     proxy_ssl_context |-> p.proxy_ssl_context, proxy_headers |-> p.proxy_headers,
     http1 |-> p.http1, http2 |-> p.http2]

\* AsyncHTTPProxy.create_connection: the connection object returned.  A
\* forwarding connection takes no http1/http2 arguments; the fields keep the
\* constructor defaults of the tunnel there and are never read.
create_connection(p, origin) ==
    IF origin.scheme = "http"
    THEN [kind |-> "Forward",
          proxy_origin |-> p.proxy_origin, remote_origin |-> origin,
          proxy_ssl_context |-> p.proxy_ssl_context,
          proxy_headers |-> p.proxy_headers,
          http1 |-> TRUE, http2 |-> FALSE]
    ELSE [kind |-> "Tunnel",
          proxy_origin |-> p.proxy_origin, remote_origin |-> origin,
          proxy_ssl_context |-> p.proxy_ssl_context,
          proxy_headers |-> p.proxy_headers,
          http1 |-> p.http1, http2 |-> p.http2]

\* the pool asks the factory for a connection to origin
CreateConnection(origin) ==
    /\ pool.state = "ready"
    /\ conn.kind = "None"
    /\ conn' = create_connection(pool, origin)
    /\ requested' = origin
    /\ UNCHANGED <<pool, tunnelVars, proxy_request, mergeVars>>

can_handle_request_proxy_origin(c, origin) == origin = c.proxy_origin

\* AsyncForwardHTTPConnection.can_handle_request and
\* AsyncTunnelHTTPConnection.can_handle_request
can_handle_request(c, origin) == origin = c.remote_origin

----------------------------------------------------------------------------
(* Requests *)

URL(scheme, host, port, target) ==
    [scheme |-> scheme, host |-> host, port |-> port, target |-> target]

NoRequest ==
    [method |-> "", url |-> URL("", <<>>, 0, <<>>), headers |-> <<>>,
     timeout |-> None]

\* bytes(request.url) of a request for the root path of an origin:
\* scheme://host:port/
AbsoluteForm(o) ==
    (CASE o.scheme = "http" -> <<104, 116, 116, 112>>
       [] o.scheme = "https" -> <<104, 116, 116, 112, 115>>
       [] OTHER -> <<119, 115, 115>>)
    \o <<58, 47, 47>> \o o.host \o <<58>> \o Digits(o.port) \o <<47>>

----------------------------------------------------------------------------
(* AsyncForwardHTTPConnection *)

forward_headers_proxy_wins(c, request) ==
    merge_headers(SomeHeaders(request.headers), SomeHeaders(c.proxy_headers))

\* headers = merge_headers(self._proxy_headers, request.headers)
forward_headers(c, request) ==
    merge_headers(SomeHeaders(c.proxy_headers), SomeHeaders(request.headers))

\* AsyncForwardHTTPConnection.handle_async_request: the request handed to the
\* proxy-facing connection.  incoming remembers the request it was built from.
ForwardHandle(headers, t) ==
    /\ conn.kind = "Forward"
    /\ LET request == [method |-> "GET",
                       url |-> URL(conn.remote_origin.scheme, conn.remote_origin.host,
                                   conn.remote_origin.port, <<47>>),
                       headers |-> headers, timeout |-> t]
       IN proxy_request' =
            [sent |-> TRUE,
             incoming |-> request,
             request |-> [method |-> request.method,
                          url |-> URL(conn.proxy_origin.scheme, conn.proxy_origin.host,
                                      conn.proxy_origin.port,
                                      AbsoluteForm(conn.remote_origin)),
                          headers |-> forward_headers(conn, request),
                          timeout |-> request.timeout]]
    /\ UNCHANGED <<pool, conn, requested, tunnelVars, mergeVars>>

----------------------------------------------------------------------------
(* AsyncTunnelHTTPConnection *)

\* the delegate held in self._connection: the proxy-facing AsyncHTTPConnection,
\* or an adapter built over the stream a start_tls call returned (id is the
\* index of that call; ssl_object and alpn describe the stream)
RawConnection == [kind |-> "raw", id |-> 0, ssl_object |-> FALSE, alpn |-> ""]

NoDelegate == [kind |-> "", id |-> 0, ssl_object |-> FALSE, alpn |-> ""]

NoError == [type |-> "", msg |-> <<>>]

ConnectStatuses == {199, 200, 299, 300, 407}

\* connect_response.extensions.get("reason_phrase", b""): absent reads as b"";
\* the last one holds a byte that is not ASCII
ReasonPhrases == {<<>>, <<78, 111>>, <<78, 233, 111>>}

\* target = b"%b:%d" % (host, port)
connect_target(c) == c.remote_origin.host \o <<58>> \o Digits(c.remote_origin.port)

\* the CONNECT request with the defaults winning over the proxy headers
connect_request_defaults_win(c, t) ==
    [method |-> "CONNECT",
     url |-> URL(c.proxy_origin.scheme, c.proxy_origin.host, c.proxy_origin.port,
                 connect_target(c)),
     headers |-> merge_headers(
                    SomeHeaders(c.proxy_headers),
                    SomeHeaders(<<<<B_Host, connect_target(c)>>,
                                  <<B_Accept, <<42, 47, 42>>>>>>)),
     timeout |-> t]

\* the CONNECT request built for a caller whose connect timeout is t
connect_request(c, t) ==
    [method |-> "CONNECT",
     url |-> URL(c.proxy_origin.scheme, c.proxy_origin.host, c.proxy_origin.port,
                 connect_target(c)),
     headers |-> merge_headers(
                    SomeHeaders(<<<<B_Host, connect_target(c)>>,
                                  <<B_Accept, <<42, 47, 42>>>>>>),
                    SomeHeaders(c.proxy_headers)),
     timeout |-> t]

connect_rejected_above_only(status) == status > 299

\* connect_response.status < 200 or connect_response.status > 299
connect_rejected(status) == status < 200 \/ status > 299

\* reason_bytes.decode("ascii", errors="ignore")
decode_ascii_ignore(bs) ==
    LET IsAscii(b) == b < 128 IN SelectSeq(bs, IsAscii)

\* msg = "%d %s" % (connect_response.status, reason_str)
proxy_error_msg(status, reason_bytes) ==
    Digits(status) \o <<32>> \o decode_ascii_ignore(reason_bytes)

\* alpn_protocols = ["http/1.1", "h2"] if self._http2 else ["http/1.1"]
alpn_protocols(c) == IF c.http2 THEN {"http/1.1", "h2"} ELSE {"http/1.1"}

\* the streams start_tls can return: get_extra_info("ssl_object") is None, or
\* an ssl_object whose selected_alpn_protocol() is None (""), "http/1.1" or
\* "h2".  The result is the peer's and the backend's: it is not assumed to be
\* one of the protocols offered.
TlsStreams ==
    {[ssl_object |-> FALSE, alpn |-> ""]}
    \cup {[ssl_object |-> TRUE, alpn |-> a] : a \in {"", "http/1.1", "h2"}}

use_http2_negotiated_only(c, stream) == stream.ssl_object /\ stream.alpn = "h2"

use_http2_when_enabled(c, stream) ==
    (stream.ssl_object /\ stream.alpn = "h2") \/ c.http2

\* http2_negotiated or (self._http2 and not self._http1)
use_http2(c, stream) ==
    (stream.ssl_object /\ stream.alpn = "h2") \/ (c.http2 /\ ~c.http1)

lock_never_held == TRUE

release_lock_never(c) == connect_lock

\* leaving the async with block: the caller that holds the lock releases it
release_lock(c) == IF connect_lock = c THEN NoCaller ELSE connect_lock

\* async with self._connect_lock: the lock can be taken
lock_free == connect_lock = NoCaller

\* the current delegate's is_closed()
delegate_is_closed == IF connection.kind = "raw" THEN rawClosed ELSE adapterClosed

is_closed_of_proxy_connection == rawClosed

\* AsyncTunnelHTTPConnection.is_closed / AsyncForwardHTTPConnection.is_closed
is_closed == delegate_is_closed

\* AsyncHTTPConnection.handle_async_request on the proxy-facing connection:
\* a closed connection refuses the request and sends nothing
raw_refuses_request == rawClosed

\* AsyncHTTPConnection after a transport failure or timeout of a request:
\* unusable, its status queries report it closed
raw_closed_after_failure == TRUE

\* a caller enters handle_async_request and reads the connect timeout
Invoke(c, t) ==
    /\ conn.kind = "Tunnel"
    /\ pc[c] = "idle"
    /\ pc' = [pc EXCEPT ![c] = "waiting"]
    /\ timeout' = [timeout EXCEPT ![c] = t]
    /\ UNCHANGED <<pool, conn, requested, connected, connection, connect_lock, err, delegatedTo,
                   rawClosed, adapterClosed, connect_requests, start_tls_calls,
                   proxy_request, rejected, connect_status, mergeVars>>

\* the caller takes the lock and finds the tunnel connected: the guarded block
\* exits, the lock is released and the original request goes to the delegate
AcquireConnected(c) ==
    /\ pc[c] = "waiting"
    /\ lock_free
    /\ connected
    /\ pc' = [pc EXCEPT ![c] = "delegated"]
    /\ delegatedTo' = [delegatedTo EXCEPT ![c] = connection]
    /\ UNCHANGED <<pool, conn, requested, connected, connection, connect_lock, err,
                   rawClosed, adapterClosed, connect_requests, start_tls_calls,
                   timeout, proxy_request, rejected, connect_status, mergeVars>>

\* the caller takes the lock, finds the tunnel not connected and hands a
\* CONNECT request to the proxy-facing connection, which sends it
AcquireConnect(c) ==
    /\ pc[c] = "waiting"
    /\ lock_free
    /\ ~connected
    /\ ~raw_refuses_request
    /\ connect_lock' = c
    /\ connect_requests' = Append(connect_requests, connect_request(conn, timeout[c]))
    /\ pc' = [pc EXCEPT ![c] = "connect"]
    /\ UNCHANGED <<pool, conn, requested, connected, connection, err, delegatedTo,
                   rawClosed, adapterClosed, start_tls_calls, timeout,
                   proxy_request, rejected, connect_status, mergeVars>>

\* as AcquireConnect, but the proxy-facing connection is closed: it refuses
\* the request, nothing is sent, the error leaves the guarded block
AcquireClosed(c) ==
    /\ pc[c] = "waiting"
    /\ lock_free
    /\ ~connected
    /\ raw_refuses_request
    /\ err' = [err EXCEPT ![c] = [type |-> "ConnectionClosed", msg |-> <<>>]]
    /\ pc' = [pc EXCEPT ![c] = "raised"]
    /\ timeout' = [timeout EXCEPT ![c] = None]
    /\ UNCHANGED <<pool, conn, requested, connected, connection, connect_lock, delegatedTo,
                   rawClosed, adapterClosed, connect_requests, start_tls_calls,
                   proxy_request, rejected, connect_status, mergeVars>>

\* the CONNECT response arrives with a status the tunnel accepts: the stream
\* is taken from the response and start_tls is called on it
ConnectAccepted(c, status) ==
    /\ pc[c] = "connect"
    /\ ~rawClosed
    /\ ~connect_rejected(status)
    /\ start_tls_calls' =
         Append(start_tls_calls,
                [server_hostname |-> conn.remote_origin.host,
                 timeout |-> timeout[c],
                 alpn_protocols |-> alpn_protocols(conn)])
    /\ connect_status' = [connect_status EXCEPT ![c] = status]
    /\ timeout' = [timeout EXCEPT ![c] = None]
    /\ pc' = [pc EXCEPT ![c] = "start_tls"]
    /\ UNCHANGED <<pool, conn, requested, connected, connection, connect_lock, err, delegatedTo,
                   rawClosed, adapterClosed, connect_requests,
                   proxy_request, rejected, mergeVars>>

close_nothing(closed) == closed

\* await self._connection.aclose() of the proxy-facing connection
close_raw(closed) == TRUE

\* the CONNECT response arrives with a status the tunnel rejects: the message
\* is built and the proxy-facing connection is closed (an await)
ConnectRejected(c, status, reason_bytes) ==
    /\ pc[c] = "connect"
    /\ ~rawClosed
    /\ connect_rejected(status)
    /\ err' = [err EXCEPT ![c] = [type |-> "ProxyError",
                                  msg |-> proxy_error_msg(status, reason_bytes)]]
    /\ rawClosed' = close_raw(rawClosed)
    /\ rejected' = Append(rejected, [caller |-> c, status |-> status,
                                     reason_phrase |-> reason_bytes])
    /\ connect_status' = [connect_status EXCEPT ![c] = status]
    /\ timeout' = [timeout EXCEPT ![c] = None]
    /\ pc' = [pc EXCEPT ![c] = "aclose"]
    /\ UNCHANGED <<pool, conn, requested, connected, connection, connect_lock, delegatedTo,
                   adapterClosed, connect_requests, start_tls_calls,
                   proxy_request, mergeVars>>

\* raise ProxyError(msg): the exception leaves the guarded block, which
\* releases the lock
RejectRaise(c) ==
    /\ pc[c] = "aclose"
    /\ pc' = [pc EXCEPT ![c] = "raised"]
    /\ connect_lock' = release_lock(c)
    /\ connect_status' = [connect_status EXCEPT ![c] = 0]
    /\ UNCHANGED <<pool, conn, requested, timeout, connected, connection, err, delegatedTo,
                   rawClosed, adapterClosed, connect_requests, start_tls_calls,
                   proxy_request, rejected, mergeVars>>

\* the CONNECT round trip raises (transport failure, timeout, connection
\* closed meanwhile): the exception leaves the guarded block
ConnectRaises(c) ==
    /\ pc[c] = "connect"
    /\ err' = [err EXCEPT ![c] = [type |-> "ConnectError", msg |-> <<>>]]
    /\ rawClosed' = (rawClosed \/ raw_closed_after_failure)
    /\ pc' = [pc EXCEPT ![c] = "raised"]
    /\ connect_lock' = release_lock(c)
    /\ timeout' = [timeout EXCEPT ![c] = None]
    /\ UNCHANGED <<pool, conn, requested, connected, connection, delegatedTo,
                   adapterClosed, connect_requests, start_tls_calls, proxy_request, rejected, connect_status, mergeVars>>

mark_connected_never == FALSE

\* self._connected = True
mark_connected == TRUE

\* start_tls returns the upgraded stream: the adapter is chosen and installed,
\* the flag is set, the lock is released and the original request is handed
\* to the delegate.  The adapter's id is the caller that built it.
TlsOk(c, stream) ==
    /\ pc[c] = "start_tls"
    /\ ~rawClosed
    /\ stream \in TlsStreams
    /\ connection' = [kind |-> IF use_http2(conn, stream) THEN "HTTP2" ELSE "HTTP11",
                      id |-> c, ssl_object |-> stream.ssl_object,
                      alpn |-> stream.alpn]
    /\ adapterClosed' = FALSE
    /\ connected' = mark_connected
    /\ connect_lock' = release_lock(c)
    /\ delegatedTo' = [delegatedTo EXCEPT ![c] = connection']
    /\ connect_status' = [connect_status EXCEPT ![c] = 0]
    /\ pc' = [pc EXCEPT ![c] = "delegated"]
    /\ UNCHANGED <<pool, conn, requested, err, rawClosed, connect_requests, start_tls_calls,
                   timeout, proxy_request, rejected, mergeVars>>

\* start_tls raises (handshake failure, timeout): the exception leaves the
\* guarded block; nothing is closed
TlsFail(c) ==
    /\ pc[c] = "start_tls"
    /\ err' = [err EXCEPT ![c] = [type |-> "TLSError", msg |-> <<>>]]
    /\ pc' = [pc EXCEPT ![c] = "raised"]
    /\ connect_lock' = release_lock(c)
    /\ connect_status' = [connect_status EXCEPT ![c] = 0]
    /\ UNCHANGED <<pool, conn, requested, timeout, connected, connection, delegatedTo,
                   rawClosed, adapterClosed, connect_requests, start_tls_calls,
                   proxy_request, rejected, mergeVars>>

\* the delegate returns the response of the original request
DelegateReturn(c) ==
    /\ pc[c] = "delegated"
    /\ ~delegate_is_closed
    /\ pc' = [pc EXCEPT ![c] = "returned"]
    /\ UNCHANGED <<pool, conn, requested, timeout, connected, connection, connect_lock, err, delegatedTo,
                   rawClosed, adapterClosed, connect_requests, start_tls_calls,
                   proxy_request, rejected, connect_status, mergeVars>>

\* the delegate raises on the original request
DelegateRaises(c) ==
    /\ pc[c] = "delegated"
    /\ err' = [err EXCEPT ![c] = [type |-> "RequestError", msg |-> <<>>]]
    /\ pc' = [pc EXCEPT ![c] = "raised"]
    /\ UNCHANGED <<pool, conn, requested, timeout, connected, connection, connect_lock, delegatedTo,
                   rawClosed, adapterClosed, connect_requests, start_tls_calls,
                   proxy_request, rejected, connect_status, mergeVars>>

\* aclose() of either connection class: closes the current delegate
Aclose ==
    /\ conn.kind # "None"
    /\ ~delegate_is_closed
    /\ IF connection.kind = "raw"
       THEN rawClosed' = TRUE /\ UNCHANGED adapterClosed
       ELSE adapterClosed' = TRUE /\ UNCHANGED rawClosed
    /\ UNCHANGED <<pool, conn, requested, connected, connection, connect_lock, pc, err,
                   delegatedTo, connect_requests, start_tls_calls, timeout,
                   proxy_request, rejected, connect_status, mergeVars>>

----------------------------------------------------------------------------
(* The pool, its connection and the callers *)

Init ==
    /\ pool = NewPool
    /\ conn = NoConn
    /\ requested = NoOrigin
    /\ connected = FALSE
    /\ connection = RawConnection
    /\ connect_lock = NoCaller
    /\ pc = [c \in Callers |-> "idle"]
    /\ err = [c \in Callers |-> NoError]
    /\ delegatedTo = [c \in Callers |-> NoDelegate]
    /\ rawClosed = FALSE
    /\ adapterClosed = FALSE
    /\ connect_requests = <<>>
    /\ start_tls_calls = <<>>
    /\ timeout = [c \in Callers |-> None]
    /\ connect_status = [c \in Callers |-> 0]
    /\ rejected = <<>>
    /\ proxy_request = [sent |-> FALSE, incoming |-> NoRequest, request |-> NoRequest]
    /\ default_headers = NoneHeaders
    /\ override_headers = NoneHeaders
    /\ merged = [done |-> FALSE, items |-> <<>>]

Next ==
    \/ \E scheme \in ProxySchemes, ctx \in SSLContexts, h \in ProxyHeaderChoices,
          h1 \in BOOLEAN, h2 \in BOOLEAN :
          Construct(scheme, ctx, h, h1, h2)
    \/ \E o \in RemoteOrigins : CreateConnection(o)
    \/ \E h \in RequestHeaderChoices, t \in ConnectTimeouts : ForwardHandle(h, t)
    \/ \E c \in Callers, t \in ConnectTimeouts : Invoke(c, t)
    \/ \E c \in Callers : AcquireConnected(c)
    \/ \E c \in Callers : AcquireConnect(c)
    \/ \E c \in Callers : AcquireClosed(c)
    \/ \E c \in Callers, s \in ConnectStatuses : ConnectAccepted(c, s)
    \/ \E c \in Callers, s \in ConnectStatuses, r \in ReasonPhrases :
          ConnectRejected(c, s, r)
    \/ \E c \in Callers : RejectRaise(c)
    \/ \E c \in Callers : ConnectRaises(c)
    \/ \E c \in Callers, st \in TlsStreams : TlsOk(c, st)
    \/ \E c \in Callers : TlsFail(c)
    \/ \E c \in Callers : DelegateReturn(c)
    \/ \E c \in Callers : DelegateRaises(c)
    \/ Aclose

Spec == Init /\ [][Next]_vars

----------------------------------------------------------------------------
(* merge_headers on its own: every pair of arguments up to MaxHeaders pairs *)

MergeKeys == {<<65>>, <<97>>, <<66>>}

MergeValues == {<<49>>, <<50>>}

MergeArguments ==
    {NoneHeaders} \cup {SomeHeaders(h) : h \in SeqsUpTo(MergeKeys \X MergeValues, MaxHeaders)}

InitMerge ==
    /\ pool = NewPool
    /\ conn = NoConn
    /\ requested = NoOrigin
    /\ connected = FALSE
    /\ connection = RawConnection
    /\ connect_lock = NoCaller
    /\ pc = [c \in Callers |-> "idle"]
    /\ err = [c \in Callers |-> NoError]
    /\ delegatedTo = [c \in Callers |-> NoDelegate]
    /\ rawClosed = FALSE
    /\ adapterClosed = FALSE
    /\ connect_requests = <<>>
    /\ start_tls_calls = <<>>
    /\ timeout = [c \in Callers |-> None]
    /\ connect_status = [c \in Callers |-> 0]
    /\ rejected = <<>>
    /\ proxy_request = [sent |-> FALSE, incoming |-> NoRequest, request |-> NoRequest]
    /\ default_headers \in MergeArguments
    /\ override_headers \in MergeArguments
    /\ merged = [done |-> FALSE, items |-> <<>>]

Merge ==
    /\ ~merged.done
    /\ merged' = [done |-> TRUE, items |-> merge_headers(default_headers, override_headers)]
    /\ UNCHANGED <<pool, conn, requested, tunnelVars, proxy_request, default_headers,
                   override_headers>>

NextMerge == Merge

SpecMerge == InitMerge /\ [][NextMerge]_vars

----------------------------------------------------------------------------
(* Properties *)

\* two keys that differ at most in the case of ASCII letters
SameKey(a, b) == Lower(a) = Lower(b)

\* how often key occurs, byte for byte, as a key of hs
Occurrences(hs, key) == Cardinality({i \in 1..Len(hs) : hs[i][1] = key})

\* the default pair at position i has a key some override pair has too
Overridden(d, o, i) == \E j \in 1..Len(o) : SameKey(d[i][1], o[j][1])

\* the positions of the defaults that no override pair matches
Surviving(d, o) == {i \in 1..Len(d) : ~Overridden(d, o, i)}

\* the k-th smallest element of a set of positions
Nth(S, k) == CHOOSE i \in S : Cardinality({j \in S : j <= i}) = k

\* m is the defaults that survive, in their order, then all of o in its order
MergedAsSpecified(d, o, m) ==
    LET surv == Surviving(d, o)
        n == Cardinality(surv)
    IN /\ Len(m) = n + Len(o)
       /\ \A k \in 1..n : m[k] = d[Nth(surv, k)]
       /\ \A j \in 1..Len(o) : m[n + j] = o[j]

ArgItems(a) == IF a.is_none THEN <<>> ELSE a.items

\* C9 (as amended): merge_headers emits every override pair exactly once, in
\* the overrides' order, after the defaults that survive, so that a key occurs
\* in the result as often as it occurs in overrides (once when overrides holds
\* it once); every default pair whose key matches an override key without
\* regard to case is dropped, the other defaults keep their order; with empty
\* (or absent) overrides the result is the defaults.
C9_MergeHeaders ==
    merged.done =>
        LET d == ArgItems(default_headers)
            o == ArgItems(override_headers)
        IN /\ MergedAsSpecified(d, o, merged.items)
           /\ \A j \in 1..Len(o) :
                 Occurrences(merged.items, o[j][1]) = Occurrences(o, o[j][1])
           /\ \A i \in 1..Len(d) :
                 Overridden(d, o, i) =>
                    Occurrences(merged.items, d[i][1]) = Occurrences(o, d[i][1])
           /\ (o = <<>> => merged.items = d)

\* C9 witness: a merge in which one default was dropped because of a key that
\* differs in case, another default survived, and overrides was not empty
C9_Witness ==
    /\ merged.done
    /\ ~default_headers.is_none /\ ~override_headers.is_none
    /\ \E i \in 1..Len(default_headers.items) :
          /\ Overridden(default_headers.items, override_headers.items, i)
          /\ \A j \in 1..Len(override_headers.items) :
                default_headers.items[i][1] # override_headers.items[j][1]
    /\ Surviving(default_headers.items, override_headers.items) # {}

\* C9 as stated: every key that appears in overrides is emitted exactly once
C9_Original ==
    merged.done =>
        LET o == ArgItems(override_headers)
        IN \A j \in 1..Len(o) : Occurrences(merged.items, o[j][1]) = 1

----------------------------------------------------------------------------
(* The tunnel handshake *)

\* the errors with which a handshake ends
HandshakeErrors == {"ProxyError", "ConnectError", "TLSError", "ConnectionClosed"}

\* no caller's handshake has failed so far
NoHandshakeFailure == \A c \in Callers : err[c].type \notin HandshakeErrors

\* the callers whose original request has been handed to a delegate
Delegated == {c \in Callers : delegatedTo[c] # NoDelegate}

IsAdapter(d) == d.kind \in {"HTTP11", "HTTP2"}

\* C1: as long as no handshake fails, however many callers are in
\* handle_async_request at once, at most one CONNECT request is sent and at
\* most one start_tls call is made; every caller whose original request was
\* delegated found exactly one of each, and all of them delegated to the one
\* adapter the tunnel holds.
C1_SingleHandshake ==
    (conn.kind = "Tunnel" /\ NoHandshakeFailure) =>
        /\ Len(connect_requests) <= 1
        /\ Len(start_tls_calls) <= 1
        /\ \A c \in Callers :
              pc[c] \in {"delegated", "returned"} \/ err[c].type = "RequestError" =>
                 /\ Len(connect_requests) = 1
                 /\ Len(start_tls_calls) = 1
                 /\ connected
                 /\ IsAdapter(connection)
                 /\ delegatedTo[c] = connection
        /\ \A c1, c2 \in Delegated : delegatedTo[c1] = delegatedTo[c2]

\* C1 witness: every caller's request was answered by the shared adapter
\* after a single CONNECT and a single start_tls
C1_Witness ==
    /\ \A c \in Callers : pc[c] = "returned" /\ delegatedTo[c] = connection
    /\ IsAdapter(connection)
    /\ Len(connect_requests) = 1
    /\ Len(start_tls_calls) = 1

\* the first handshake on the tunnel ended with a rejected CONNECT response
FirstHandshakeRejected == rejected # <<>> /\ start_tls_calls = <<>>

\* C2: once the first handshake has been rejected by the proxy, the tunnel
\* has put exactly one CONNECT request on the wire and never sends another:
\* it is not connected, its delegate is the closed proxy-facing connection,
\* and every other caller that got past the lock failed on the closed
\* connection without a CONNECT or TLS upgrade of its own.
C2_NoSecondHandshake ==
    FirstHandshakeRejected =>
        /\ Len(connect_requests) = 1
        /\ Len(rejected) = 1
        /\ ~connected
        /\ connection = RawConnection
        /\ is_closed
        /\ \A c \in Callers :
              /\ c # rejected[1].caller =>
                    /\ pc[c] \in {"idle", "waiting", "raised"}
                    /\ pc[c] = "raised" => err[c].type = "ConnectionClosed"
                    /\ delegatedTo[c] = NoDelegate
              /\ c = rejected[1].caller => err[c].type = "ProxyError"

\* C2 witness: the first caller was rejected and every other caller then
\* found the connection closed
C2_Witness ==
    /\ FirstHandshakeRejected
    /\ \A c \in Callers : pc[c] = "raised"
    /\ \E c \in Callers : err[c].type = "ConnectionClosed"

IsAsciiBytes(bs) == \A i \in 1..Len(bs) : bs[i] < 128

\* the bytes of bs below 128, in order, are exactly the bytes of out
AsciiPartOf(bs, out) ==
    LET keep == {i \in 1..Len(bs) : bs[i] < 128}
    IN /\ Len(out) = Cardinality(keep)
       /\ \A k \in 1..Len(out) : out[k] = bs[Nth(keep, k)]

\* C3: a CONNECT response is taken to start_tls only with a status in
\* 200..299; for every other status the proxy-facing connection is closed
\* and the caller fails with a ProxyError whose message is the status in
\* decimal, a space and the reason phrase (its ASCII bytes), without a TLS
\* upgrade or a delegated request, and is_closed is true from then on.
C3_ConnectRejected ==
    /\ \A c \in Callers :
          pc[c] = "start_tls" => connect_status[c] >= 200 /\ connect_status[c] <= 299
    /\ \A k \in 1..Len(rejected) :
          LET r == rejected[k]
              m == err[r.caller].msg
          IN /\ r.status < 200 \/ r.status > 299
             /\ err[r.caller].type = "ProxyError"
             /\ pc[r.caller] \in {"aclose", "raised"}
             /\ Len(m) >= 4
             /\ ParseDigits(SubSeq(m, 1, 3)) = r.status
             /\ m[4] = 32
             /\ AsciiPartOf(r.reason_phrase, SubSeq(m, 5, Len(m)))
             /\ IsAsciiBytes(r.reason_phrase) => SubSeq(m, 5, Len(m)) = r.reason_phrase
             /\ delegatedTo[r.caller] = NoDelegate
             /\ rawClosed
             /\ is_closed
             /\ ~connected

\* C3 witness: a 407 with a reason phrase was rejected and the caller has
\* received the ProxyError
C3_Witness ==
    \E k \in 1..Len(rejected) :
        /\ rejected[k].status = 407
        /\ rejected[k].reason_phrase = <<78, 111>>
        /\ pc[rejected[k].caller] = "raised"
        /\ err[rejected[k].caller].msg = <<52, 48, 55, 32, 78, 111>>
        /\ is_closed

\* ALPN negotiated "h2": there is an ssl_object and it selected "h2"
NegotiatedH2 == connection.ssl_object /\ connection.alpn = "h2"

\* C4: once connected, the delegate is the HTTP/2 adapter exactly when ALPN
\* negotiated "h2" or http2 is enabled with http1 disabled, and the
\* HTTP/1.1 adapter otherwise.
C4_AdapterChoice ==
    connected =>
        /\ connection.kind \in {"HTTP11", "HTTP2"}
        /\ connection.kind = "HTTP2" <=> (NegotiatedH2 \/ (conn.http2 /\ ~conn.http1))

\* C4 witness: HTTP/2 chosen without "h2" having been negotiated
C4_Witness ==
    /\ connected
    /\ connection.kind = "HTTP2"
    /\ ~NegotiatedH2

\* C5 (as amended): "h2" negotiated gives the HTTP/2 adapter, with http2
\* enabled or not; no "h2" match gives the HTTP/1.1 adapter when http1 is
\* enabled or http2 is disabled, and the HTTP/2 adapter when http2 is enabled
\* and http1 is disabled.
C5_AdapterByAlpn ==
    connected =>
        /\ NegotiatedH2 => connection.kind = "HTTP2"
        /\ (~NegotiatedH2 /\ (conn.http1 \/ ~conn.http2)) => connection.kind = "HTTP11"
        /\ (~NegotiatedH2 /\ conn.http2 /\ ~conn.http1) => connection.kind = "HTTP2"

\* C5 witness: http2 enabled, http1 disabled, ALPN fell back to "http/1.1"
C5_Witness ==
    /\ connected
    /\ conn.http2 /\ ~conn.http1
    /\ connection.ssl_object /\ connection.alpn = "http/1.1"
    /\ connection.kind = "HTTP2"

\* C5 as stated: no "h2" match or http2 disabled gives the HTTP/1.1 adapter
\* for every setting of http1
C5_Original ==
    connected =>
        /\ (NegotiatedH2 /\ conn.http2) => connection.kind = "HTTP2"
        /\ (~NegotiatedH2 \/ ~conn.http2) => connection.kind = "HTTP11"

----------------------------------------------------------------------------
(* The forwarding connection, the factory and the pool's construction *)

\* pair occurs in the header list hs
Emitted(hs, pair) == \E k \in 1..Len(hs) : hs[k] = pair

\* C6 (as amended): the headers a forwarding connection sends are the
\* configured proxy headers whose name the incoming request does not carry,
\* followed by the incoming request's headers: for a name present in both
\* (compared without regard to case) the incoming request's pair is emitted
\* and the configured proxy header's pair is dropped.
C6_ForwardHeaders ==
    proxy_request.sent =>
        LET ph == conn.proxy_headers
            rh == proxy_request.incoming.headers
            out == proxy_request.request.headers
        IN /\ MergedAsSpecified(ph, rh, out)
           /\ \A i \in 1..Len(ph), j \in 1..Len(rh) :
                 SameKey(ph[i][1], rh[j][1]) =>
                    Emitted(out, rh[j]) /\ ~Emitted(out, ph[i])

\* a header name is configured on the proxy and carried by the request
ForwardConflict ==
    \E i \in 1..Len(conn.proxy_headers),
       j \in 1..Len(proxy_request.incoming.headers) :
        SameKey(conn.proxy_headers[i][1], proxy_request.incoming.headers[j][1])

\* C6 witness: a request was forwarded whose headers clash with the
\* configured proxy headers
C6_Witness == proxy_request.sent /\ ForwardConflict

\* C6 as stated: for a name present in both, the configured proxy header's
\* pair is emitted and the incoming request's pair is dropped
C6_Original ==
    proxy_request.sent =>
        LET ph == conn.proxy_headers
            rh == proxy_request.incoming.headers
            out == proxy_request.request.headers
        IN \A i \in 1..Len(ph), j \in 1..Len(rh) :
              SameKey(ph[i][1], rh[j][1]) =>
                 Emitted(out, ph[i]) /\ ~Emitted(out, rh[j])

\* C7: the connection create_connection returned is a forwarding connection
\* when the requested origin's scheme is http and a tunnel for any other
\* scheme, whatever the proxy's scheme, and it is bound to the requested
\* origin and to the pool's proxy origin.
C7_CreateConnection ==
    conn.kind # "None" =>
        /\ requested \in RemoteOrigins
        /\ conn.kind = (IF requested.scheme = "http" THEN "Forward" ELSE "Tunnel")
        /\ conn.remote_origin = requested
        /\ conn.proxy_origin = pool.proxy_origin

\* C7 witness: a tunnel for a destination that is neither http nor https,
\* created by a pool whose proxy is addressed over plaintext http
C7_Witness ==
    /\ conn.kind = "Tunnel"
    /\ requested.scheme = "wss"
    /\ pool.proxy_origin.scheme = "http"

\* C8: the constructor raises exactly when the proxy URL's scheme is http
\* and a proxy_ssl_context was passed; it raises before any connection
\* exists, and every other combination yields a usable pool.
C8_ProxySslContext ==
    pool.state # "new" =>
        /\ pool.state = "RuntimeError" <=>
              (pool.proxy_origin.scheme = "http" /\ pool.arg_proxy_ssl_context # None)
        /\ pool.state # "RuntimeError" => pool.state = "ready"
        /\ pool.state = "RuntimeError" => conn.kind = "None"

\* C8 witness: construction failed
C8_Witness == pool.state = "RuntimeError"

\* the origins a caller may ask about: the destinations and the proxy's own
QueryOrigins == RemoteOrigins \cup {ProxyOrigin(sch) : sch \in ProxySchemes}

\* C10 (as amended): in every state of a forwarding connection or a tunnel,
\* can_handle_request(origin) is true exactly for the destination origin the
\* connection was created for; it is true for the proxy's own origin only
\* when that origin is itself the destination.
C10_CanHandle ==
    conn.kind # "None" =>
        /\ \A o \in QueryOrigins : can_handle_request(conn, o) <=> (o = requested)
        /\ can_handle_request(conn, pool.proxy_origin) <=> (requested = pool.proxy_origin)

\* C10 witness: a tunnel whose handshake has completed refuses the proxy's
\* origin and accepts its destination
C10_Witness ==
    /\ conn.kind = "Tunnel"
    /\ connected
    /\ can_handle_request(conn, requested)
    /\ ~can_handle_request(conn, pool.proxy_origin)

\* C10 as stated: true exactly for the bound destination, and never true
\* for the proxy's own origin
C10_Original ==
    conn.kind # "None" =>
        /\ \A o \in QueryOrigins : can_handle_request(conn, o) <=> (o = requested)
        /\ ~can_handle_request(conn, pool.proxy_origin)

----------------------------------------------------------------------------
(* The tunnel's state machine *)

\* the positions between sending the CONNECT request and leaving the
\* guarded block
InHandshake == {"connect", "aclose", "start_tls"}

\* C11: the tunnel starts unconnected with the proxy-facing connection as
\* its delegate; _connected never goes back to False; the delegate changes
\* only from the proxy-facing connection to an HTTP/1.1 or HTTP/2 adapter,
\* in the step that sets _connected, and is never changed again.
C11_ConnectedOnce ==
    /\ ~connected /\ connection = RawConnection
    /\ [][/\ connected => connected'
          /\ connection' # connection =>
                /\ connection = RawConnection
                /\ IsAdapter(connection')
                /\ ~connected /\ connected'
          /\ (~connected /\ connected') => connection' # connection]_vars

\* C11 witness: after the transition another caller used the tunnel and
\* aclose was called, with the first adapter still in place
C11_Witness ==
    /\ connected
    /\ IsAdapter(connection)
    /\ adapterClosed
    /\ \E c \in Callers : pc[c] \in {"delegated", "returned", "raised"}
                          /\ delegatedTo[c] = connection /\ connection.id # c

\* C12: in every state another caller or a status query can observe, the
\* flag is set exactly when the delegate is an adapter built over a stream
\* that start_tls returned; otherwise the delegate is the proxy-facing
\* connection.
C12_FlagAndDelegate ==
    /\ connected <=> IsAdapter(connection)
    /\ ~connected <=> connection = RawConnection
    /\ connected => connection.id \in Callers /\ start_tls_calls # <<>>

\* C12 witness: a caller waits for the lock while the holder is inside
\* start_tls, and the tunnel still shows the raw connection, unconnected
C12_Witness ==
    /\ \E c1, c2 \in Callers : pc[c1] = "start_tls" /\ pc[c2] = "waiting"
    /\ ~connected
    /\ connection = RawConnection

\* C13: at most one caller is inside the handshake and it holds the lock;
\* a CONNECT request is sent only while no caller is inside the handshake,
\* and start_tls is called only by the caller that holds the lock.
C13_OneHandshakeAtATime ==
    /\ [](/\ Cardinality({c \in Callers : pc[c] \in InHandshake}) <= 1
          /\ \A c \in Callers : pc[c] \in InHandshake => connect_lock = c)
    /\ [][/\ Len(connect_requests') > Len(connect_requests) =>
                \A c \in Callers : pc[c] \notin InHandshake
          /\ Len(start_tls_calls') > Len(start_tls_calls) =>
                \E c \in Callers : /\ connect_lock = c
                                   /\ pc[c] = "connect" /\ pc'[c] = "start_tls"
                                   /\ \A d \in Callers \ {c} : pc'[d] = pc[d]]_vars

\* C13 witness: a second caller has arrived and waits while the first is
\* between its CONNECT and the end of the handshake
C13_Witness ==
    \E c1, c2 \in Callers :
        /\ pc[c1] = "connect"
        /\ pc[c2] = "waiting"
        /\ Len(connect_requests) = 1
        /\ start_tls_calls = <<>>

\* C14 as stated: once start_tls has failed for a caller, the tunnel is not
\* connected and is_closed reports it closed
C14_Original ==
    \A c \in Callers :
        err[c].type = "TLSError" => (~connected /\ is_closed)

\* C15: the original request of a call is handed to an HTTP/1.1 or HTTP/2
\* adapter only, with the tunnel connected, never to the proxy-facing
\* connection; a call whose handshake failed hands it to nothing.
C15_DelegateOnlyToAdapter ==
    \A c \in Callers :
        /\ pc[c] \in {"delegated", "returned"} => delegatedTo[c] # NoDelegate
        /\ delegatedTo[c] # NoDelegate =>
              /\ IsAdapter(delegatedTo[c])
              /\ delegatedTo[c] = connection
              /\ connected
        /\ err[c].type \in HandshakeErrors =>
              delegatedTo[c] = NoDelegate /\ pc[c] \in {"aclose", "raised"}

\* C15 witness: one call failed in its handshake and delegated nothing,
\* another was answered by the adapter
C15_Witness ==
    \E c1, c2 \in Callers :
        /\ err[c1].type \in HandshakeErrors
        /\ pc[c1] = "raised"
        /\ pc[c2] = "returned"
        /\ IsAdapter(delegatedTo[c2])

\* C16: a caller whose original request is with the delegate does not hold
\* the lock; once the tunnel is connected the lock is free, so a waiting
\* caller can go on to its own delegated request at once.
C16_LockOnlyForHandshake ==
    /\ \A c \in Callers : connect_lock = c => pc[c] \in InHandshake
    /\ connected => connect_lock = NoCaller
    /\ \A c \in Callers :
          (connected /\ pc[c] = "waiting") => ENABLED AcquireConnected(c)

\* C16 witness: two callers are inside their delegated requests at once
C16_Witness ==
    \E c1, c2 \in Callers :
        /\ c1 # c2
        /\ pc[c1] = "delegated"
        /\ pc[c2] = "delegated"
        /\ connect_lock = NoCaller

\* C17: is_closed reports on the current delegate (the proxy-facing connection
\* before the transition, the adapter after it), and aclose closes the current
\* delegate; aclose needs no lock (it can run while a handshake holds it) and
\* changes neither the connected flag, the delegate nor the lock.
C17_StatusAndCloseOnDelegate ==
    /\ [](/\ is_closed = (IF connected THEN adapterClosed ELSE rawClosed)
          /\ (conn.kind = "Tunnel" /\ ~is_closed) => ENABLED Aclose)
    /\ [][(\/ rawClosed' # rawClosed /\ pc' = pc
           \/ adapterClosed' # adapterClosed) =>
              /\ UNCHANGED <<connected, connection, connect_lock, pc>>
              /\ is_closed'
              /\ IF connected
                   THEN adapterClosed' /\ rawClosed' = rawClosed
                   ELSE rawClosed' /\ adapterClosed' = adapterClosed]_vars

\* C17 witness: the proxy-facing connection was closed by aclose while a
\* caller was in the middle of the TLS upgrade, holding the lock
C17_Witness ==
    \E c \in Callers :
        /\ pc[c] = "start_tls"
        /\ connect_lock = c
        /\ rawClosed
        /\ is_closed
        /\ connection = RawConnection

\* target is host, one colon, then the decimal digits of port: no scheme
IsHostPort(target, host, port) ==
    LET n == Len(host)
    IN /\ Len(target) > n + 1
       /\ SubSeq(target, 1, n) = host
       /\ target[n + 1] = 58
       /\ \A i \in (n + 2)..Len(target) : target[i] \in 48..57
       /\ ParseDigits(SubSeq(target, n + 2, Len(target))) = port

\* the defaults of the CONNECT request for a target
ConnectDefaults(target) == <<<<B_Host, target>>, <<B_Accept, <<42, 47, 42>>>>>>

\* C18: every CONNECT request sent has method CONNECT, the scheme, host and
\* port of the proxy origin, the target "host:port" of the destination, and
\* the headers Host: target and Accept: */* followed by the proxy headers,
\* a default being dropped when a proxy header has its name in any case; the
\* request carries the caller's connect timeout, and the TLS upgrade that
\* follows it is given the same timeout.
C18_ConnectRequest ==
    /\ [](\A k \in 1..Len(connect_requests) :
            LET r == connect_requests[k]
            IN /\ r.method = "CONNECT"
               /\ r.url.scheme = conn.proxy_origin.scheme
               /\ r.url.host = conn.proxy_origin.host
               /\ r.url.port = conn.proxy_origin.port
               /\ IsHostPort(r.url.target, conn.remote_origin.host,
                             conn.remote_origin.port)
               /\ MergedAsSpecified(ConnectDefaults(r.url.target),
                                    conn.proxy_headers, r.headers)
               /\ \A i \in 1..Len(r.headers) :
                     \A j \in 1..Len(conn.proxy_headers) :
                        SameKey(r.headers[i][1], conn.proxy_headers[j][1]) =>
                           \E l \in 1..Len(conn.proxy_headers) :
                              r.headers[i] = conn.proxy_headers[l])
    /\ [][/\ Len(connect_requests') > Len(connect_requests) =>
                \E c \in Callers :
                   /\ pc[c] = "waiting" /\ pc'[c] = "connect"
                   /\ connect_requests'[Len(connect_requests')].timeout = timeout[c]
          /\ Len(start_tls_calls') > Len(start_tls_calls) =>
                /\ connect_requests # <<>>
                /\ start_tls_calls'[Len(start_tls_calls')].timeout =
                      connect_requests[Len(connect_requests)].timeout
                /\ start_tls_calls'[Len(start_tls_calls')].server_hostname =
                      conn.remote_origin.host]_vars

\* C18 witness: a CONNECT request went out with a configured host header in
\* place of the default Host and with a connect timeout, and the TLS upgrade
\* was started with that timeout
C18_Witness ==
    /\ Len(connect_requests) = 1
    /\ Len(start_tls_calls) = 1
    /\ connect_requests[1].headers =
          <<<<B_Accept, <<42, 47, 42>>>>, <<B_host, B_p>>, <<B_XA, <<49>>>>>>
    /\ connect_requests[1].timeout = "5.0"
    /\ start_tls_calls[1].timeout = "5.0"
    /\ connect_requests[1].url.target = <<97, 58, 52, 52, 51>>

-----------------------------------------------------------------------------
(* Fair scheduling of the callers *)

\* the steps of caller c after it has invoked handle_async_request
CallerStep(c) ==
    \/ AcquireConnected(c)
    \/ AcquireConnect(c)
    \/ AcquireClosed(c)
    \/ \E status \in ConnectStatuses : ConnectAccepted(c, status)
    \/ \E status \in ConnectStatuses, reason_bytes \in ReasonPhrases :
          ConnectRejected(c, status, reason_bytes)
    \/ RejectRaise(c)
    \/ ConnectRaises(c)
    \/ \E stream \in TlsStreams : TlsOk(c, stream)
    \/ TlsFail(c)
    \/ DelegateReturn(c)
    \/ DelegateRaises(c)

\* the event loop runs every task that can run, and every awaited CONNECT
\* round trip, TLS upgrade and delegated request ends with a result or an error
SpecFair == Spec /\ \A c \in Callers : WF_vars(CallerStep(c))

\* C19: every call of handle_async_request on a tunnel connection returns or
\* raises in the end, a caller that holds the lock gives it up, and a call
\* that has ended does not hold the lock.
C19_EveryCallEnds ==
    /\ \A c \in Callers : (pc[c] = "waiting") ~> (pc[c] \in {"returned", "raised"})
    /\ \A c \in Callers : (connect_lock = c) ~> (connect_lock # c)
    /\ [](\A c \in Callers : pc[c] \in {"returned", "raised", "delegated"} =>
                                connect_lock # c)

\* C19 witness: one caller's TLS upgrade failed while another waited for the
\* lock, and both calls have ended, the lock being free
C19_Witness ==
    \E c1, c2 \in Callers :
        /\ err[c1].type = "TLSError" /\ pc[c1] = "raised"
        /\ c2 # c1
        /\ pc[c2] \in {"returned", "raised"}
        /\ err[c2].type # "TLSError"
        /\ connect_lock = NoCaller

\* C20: a step in which a caller's handshake fails (the CONNECT is rejected,
\* the CONNECT raises, or start_tls raises) leaves the connected flag false
\* and the delegate the proxy-facing connection; the flag and the delegate
\* change only in the step that completes a handshake, made by the caller
\* that holds the lock, and nowhere else.
C20_FailureChangesNothing ==
    /\ [][\A c \in Callers :
             (/\ pc[c] \in InHandshake
              /\ err'[c].type \in HandshakeErrors) =>
                /\ ~connected' /\ connection' = RawConnection
                /\ UNCHANGED <<connected, connection>>]_vars
    /\ [][(connected' # connected \/ connection' # connection) =>
             \E c \in Callers :
                /\ connect_lock = c
                /\ pc[c] = "start_tls" /\ pc'[c] = "delegated"
                /\ err'[c] = NoError]_vars
    /\ [](\A c \in Callers :
             (pc[c] = "raised" /\ err[c].type \in {"ProxyError", "ConnectError"}
              /\ Len(connect_requests) = 1) =>
                (~connected /\ connection = RawConnection))

\* C20 witness: start_tls raised for a caller, and the tunnel is still
\* unconnected with the proxy-facing connection, not closed, as its delegate
C20_Witness ==
    \E c \in Callers :
        /\ err[c].type = "TLSError"
        /\ pc[c] = "raised"
        /\ ~connected
        /\ connection = RawConnection
        /\ ~rawClosed
        /\ Len(start_tls_calls) = 1

====
